---- MODULE Spec2Model ----
(***************************************************************************)
(* Model of marker/extract_text.py: the page-quality gate detect_bad_ocr,  *)
(* full-page OCR (ocr_entire_page), fragment OCR (ocr_bbox), the hierarchy *)
(* builder get_single_page_blocks and the page loop get_text_blocks.       *)
(*                                                                         *)
(* Text is a sequence of one-character strings.  The external engines      *)
(* (renderer, OCR, tokenizer, dictionary) are inputs: what they return is  *)
(* drawn from small sets.  Python floats are compared as exact fractions:  *)
(* for the counts that occur here x / n > .5, x / n > .3, x / n < .6 and   *)
(* x > n * .8 agree with 2x > n, 10x > 3n, 5x < 3n and 5x > 4n.            *)
(***************************************************************************)
EXTENDS Integers, Sequences, FiniteSets, TLC

VARIABLES
    pc,              \* position of the function under execution
    doc_len,         \* len(doc)
    max_pages,       \* get_text_blocks argument: <<>> is None, <<m>> is the int m
    spell_lang,      \* get_text_blocks argument
    pnum,            \* loop index of get_text_blocks / argument of get_single_page_blocks
    page_extracted,  \* cross-page flag of get_text_blocks
    page_obj,        \* page_obj of the current iteration
    all_blocks,      \* accumulator of get_text_blocks
    ocr_out,         \* what the OCR engine answered on the last full-page OCR
    ocr_retry,       \* indices of the pages for which line 177 was executed
    raw_page,        \* block records handed to get_single_page_blocks
    page_blocks,     \* value returned by get_single_page_blocks
    old_text,        \* ocr_bbox argument
    ocr_frag,        \* what the OCR engine answered in ocr_bbox
    new_text,        \* value returned by ocr_bbox
    text,            \* detect_bad_ocr argument
    verdict          \* outcome of detect_bad_ocr

vars == <<pc, doc_len, max_pages, spell_lang, pnum, page_extracted, page_obj,
          all_blocks, ocr_out, ocr_retry, raw_page, page_blocks, old_text,
          ocr_frag, new_text, text, verdict>>

docVars == <<doc_len, max_pages, spell_lang, page_extracted, page_obj,
             all_blocks, ocr_retry>>

fragVars == <<old_text, ocr_frag, new_text>>

gateVars == <<text, verdict>>

-----------------------------------------------------------------------------
(* Bounds *)

MaxDocLen == 7

MaxLimit == 4

MaxBlocks == 2

MaxLines == 3

MaxFragLen == 3

MaxTextLen == 3

MaxGateLen == 6

-----------------------------------------------------------------------------
(* Python values *)

None == "None"

Truthy(x) == x \notin {None, ""}

SPACE == " "

NEWLINE == "\n"

TAB == "\t"

BADCHAR == "?"

INVALID_CHARS == {BADCHAR}

isalnum(c) == c \in {"a", "b", "c", "1"}

isspace(c) == c \in {SPACE, NEWLINE, TAB}

Range(s) == {s[i] : i \in 1..Len(s)}

SeqsUpTo(S, n) == UNION {[1..k -> S] : k \in 0..n}

Rep(c, n) == [i \in 1..n |-> c]

count(t, c) == Cardinality({i \in 1..Len(t) : t[i] = c})

lblanks(t) ==
    IF \A i \in 1..Len(t) : isspace(t[i]) THEN Len(t)
    ELSE (CHOOSE i \in 1..Len(t) :
             ~isspace(t[i]) /\ \A j \in 1..(i - 1) : isspace(t[j])) - 1

rblanks(t) ==
    IF \A i \in 1..Len(t) : isspace(t[i]) THEN Len(t)
    ELSE Len(t) - (CHOOSE i \in 1..Len(t) :
             ~isspace(t[i]) /\ \A j \in (i + 1)..Len(t) : isspace(t[j]))

lstrip(t) == SubSeq(t, lblanks(t) + 1, Len(t))

rstrip(t) == SubSeq(t, 1, Len(t) - rblanks(t))

strip(t) == rstrip(lstrip(t))

word_isalnum(w) == Len(w) > 0 /\ \A i \in 1..Len(w) : isalnum(w[i])

-----------------------------------------------------------------------------
(* detect_bad_ocr *)

CharClass(c) ==
    IF isalnum(c) \/ c = "_" THEN "w" ELSE IF isspace(c) THEN "s" ELSE "p"

RunLen(t) ==
    CHOOSE n \in 1..Len(t) :
        /\ \A i \in 1..n : CharClass(t[i]) = CharClass(t[1])
        /\ (n = Len(t) \/ CharClass(t[n + 1]) # CharClass(t[1]))

RECURSIVE wordpunct_tokenize(_)
wordpunct_tokenize(t) ==
    IF t = <<>> THEN <<>>
    ELSE LET n == RunLen(t)
             rest == wordpunct_tokenize(SubSeq(t, n + 1, Len(t)))
         IN IF CharClass(t[1]) = "s" THEN rest ELSE <<SubSeq(t, 1, n)>> \o rest

misspell_threshold == 8

space_threshold == 5

newline_threshold == 3

TooManyMisspelled(t, unknown) ==
    LET words == SelectSeq(wordpunct_tokenize(t), LAMBDA w : strip(w) # <<>>)
        alpha_words == SelectSeq(words, word_isalnum)
        nonalpha_words == SelectSeq(words, LAMBDA w : ~word_isalnum(w))
        misspelled == Range(alpha_words) \cap unknown
    IN (Cardinality(misspelled) + Len(nonalpha_words)) * 10
           > Len(words) * misspell_threshold

TooManySpacesStrictGE(t) == count(t, SPACE) * 10 >= Len(t) * space_threshold

TooManySpaces(t) == count(t, SPACE) * 10 > Len(t) * space_threshold

TooManyNewlines(t) == count(t, NEWLINE) * 10 > Len(t) * newline_threshold

\* the division of line 26 is reached with len(text) = 0
detect_bad_ocr_raises(t, lang, unknown) ==
    /\ ~(Truthy(lang) /\ TooManyMisspelled(t, unknown))
    /\ Len(t) = 0

detect_bad_ocr(t, lang, unknown) ==
    IF Truthy(lang) /\ TooManyMisspelled(t, unknown) THEN TRUE
    ELSE IF TooManySpaces(t) THEN TRUE
    ELSE IF TooManyNewlines(t) THEN TRUE
    ELSE FALSE

GateOutcome(t, lang, unknown) ==
    IF detect_bad_ocr_raises(t, lang, unknown) THEN "ZeroDivisionError"
    ELSE IF detect_bad_ocr(t, lang, unknown) THEN "garbled" ELSE "usable"

-----------------------------------------------------------------------------
(* ocr_bbox: engine is what pdfocr_tobytes / get_text did, either a          *)
(* RuntimeError or the recognized text                                      *)

ocr_bbox_left_pad_only(old, engine) ==
    IF engine.raises THEN old
    ELSE IF strip(engine.text) = <<>> THEN old
    ELSE Rep(SPACE, lblanks(old)) \o engine.text

ocr_bbox_blank_kept(old, engine) ==
    IF engine.raises THEN old
    ELSE Rep(SPACE, lblanks(old)) \o engine.text \o Rep(SPACE, rblanks(old))

ocr_bbox(old, engine) ==
    IF engine.raises THEN old
    ELSE IF strip(engine.text) = <<>> THEN old
    ELSE Rep(SPACE, lblanks(old)) \o engine.text \o Rep(SPACE, rblanks(old))

-----------------------------------------------------------------------------
(* Records of the rendering engine: page.get_text("dict")["blocks"].  A span *)
(* record also carries what the OCR engine would answer for its bbox.       *)

NoFragOcr == [raises |-> TRUE, text |-> <<>>]

RawSpan(t, engine) == [text |-> t, bbox |-> <<0, 0, 1, 1>>, ocr |-> engine]

RawLine(spans, bbox) == [spans |-> spans, bbox |-> bbox]

RawBlock(lines) == [lines |-> lines, bbox |-> <<0, 0, 4, 4>>]

-----------------------------------------------------------------------------
(* marker.schema: Line.area, Page.prelim_text, Page.get_nonblank_lines       *)

area(bbox) == (bbox[3] - bbox[1]) * (bbox[4] - bbox[2])

RECURSIVE Concat(_)
Concat(ss) == IF ss = <<>> THEN <<>> ELSE Head(ss) \o Concat(Tail(ss))

LineText(l) == Concat([i \in 1..Len(l.spans) |-> l.spans[i].text])

PageLines(p) == Concat([i \in 1..Len(p.blocks) |-> p.blocks[i].lines])

prelim_text(p) ==
    LET ls == PageLines(p) IN Concat([i \in 1..Len(ls) |-> LineText(ls[i])])

get_nonblank_lines(p) == SelectSeq(PageLines(p), LAMBDA l : strip(LineText(l)) # <<>>)

Page(blocks, p) == [blocks |-> blocks, pnum |-> p]

-----------------------------------------------------------------------------
(* ocr_entire_page: engine is what get_textpage_ocr / get_text did          *)

NoException == "none"

ocr_entire_page(engine, lang) ==
    IF engine.raises THEN [exc |-> NoException, blocks |-> <<>>]
    ELSE IF detect_bad_ocr_raises(engine.full_text, lang, engine.unknown)
         THEN [exc |-> "ZeroDivisionError", blocks |-> <<>>]
    ELSE IF detect_bad_ocr(engine.full_text, lang, engine.unknown)
         THEN [exc |-> NoException, blocks |-> <<>>]
    ELSE [exc |-> NoException, blocks |-> engine.blocks]

-----------------------------------------------------------------------------
(* get_single_page_blocks *)

DigitChars == <<"0", "1", "2", "3", "4", "5", "6", "7", "8", "9">>

RECURSIVE str(_)
str(n) ==
    IF n < 10 THEN <<DigitChars[n + 1]>>
    ELSE str(n \div 10) \o <<DigitChars[(n % 10) + 1]>>

format_span_id(p, k) == str(p) \o <<"_">> \o str(k)

HasInvalidChars(t) == Range(t) \cap INVALID_CHARS # {}

MakeSpan(s, p, span_id) ==
    [text |-> IF HasInvalidChars(s.text) THEN ocr_bbox(s.text, s.ocr) ELSE s.text,
     bbox |-> s.bbox,
     span_id |-> format_span_id(p, span_id)]

MakeSpans(l, p, span_id) ==
    [i \in 1..Len(l.spans) |-> MakeSpan(l.spans[i], p, span_id + (i - 1))]

SpanIdNotAdvanced(span_id, l) == span_id

SpanIdAfterLine(span_id, l) == span_id + Len(l.spans)

LineRetainedNonNegative(line_obj) == area(line_obj.bbox) >= 0

LineRetained(line_obj) == area(line_obj.bbox) > 0

BlockRetainedAlways(block_lines) == TRUE

BlockRetained(block_lines) == Len(block_lines) > 0

RECURSIVE BuildLines(_, _, _)
BuildLines(lines, p, span_id) ==
    IF lines = <<>> THEN [lines |-> <<>>, span_id |-> span_id]
    ELSE LET l == Head(lines)
             line_obj == [spans |-> MakeSpans(l, p, span_id), bbox |-> l.bbox]
             rest == BuildLines(Tail(lines), p, SpanIdAfterLine(span_id, l))
         IN [lines |-> (IF LineRetained(line_obj) THEN <<line_obj>> ELSE <<>>)
                          \o rest.lines,
             span_id |-> rest.span_id]

RECURSIVE BuildBlocks(_, _, _)
BuildBlocks(blocks, p, span_id) ==
    IF blocks = <<>> THEN <<>>
    ELSE LET block == Head(blocks)
             built == BuildLines(block.lines, p, span_id)
             block_obj == [lines |-> built.lines, bbox |-> block.bbox, pnum |-> p]
         IN (IF BlockRetained(built.lines) THEN <<block_obj>> ELSE <<>>)
                \o BuildBlocks(Tail(blocks), p, built.span_id)

\* page = [native |-> block records of the native extraction,
\*         ocr    |-> answer of the OCR engine for the whole page]
get_single_page_blocks(page, p, lang, ocr) ==
    LET got == IF ocr THEN ocr_entire_page(page.ocr, lang)
               ELSE [exc |-> NoException, blocks |-> page.native]
    IN IF got.exc # NoException THEN [exc |-> got.exc, blocks |-> <<>>]
       ELSE [exc |-> NoException, blocks |-> BuildBlocks(got.blocks, p, 0)]

-----------------------------------------------------------------------------
(* alphanum_ratio, as the fraction <<numerator, denominator>> *)

alphanum_ratio(t) ==
    LET alphanumeric_count == Cardinality({i \in 1..Len(t) : isalnum(t[i])})
    IN IF Len(t) = 0
       THEN (IF alphanumeric_count = 0 THEN <<1, 1>> ELSE <<0, 1>>)
       ELSE <<alphanumeric_count, Len(t)>>

-----------------------------------------------------------------------------
(* Inputs of get_text_blocks: what the native extraction and the full-page  *)
(* OCR of a page can deliver                                                *)

AB == <<"a", "b">>

TextLine(t) == RawLine(<<RawSpan(t, NoFragOcr)>>, <<0, 0, 2, 1>>)

\* 3 non-blank lines, all characters alphanumeric
GoodPage == <<RawBlock(<<TextLine(AB), TextLine(AB), TextLine(AB)>>)>>

\* 2 non-blank lines and a blank one, alphanumeric ratio 4/5
SparsePage == <<RawBlock(<<TextLine(AB), TextLine(AB), TextLine(<<SPACE>>)>>)>>

\* 3 non-blank lines, alphanumeric ratio 3/10; one span holds an invalid char
GarbledPage ==
    <<RawBlock(<<TextLine(<<"a", "#", "#">>), TextLine(<<"a", "#", "#">>),
                 TextLine(<<"a", BADCHAR, "#", "#">>)>>)>>

\* no text at all
EmptyPage == <<>>

NativePages == {GoodPage, SparsePage, GarbledPage, EmptyPage}

OcrBlocks ==
    <<RawBlock(<<TextLine(<<"a", "b", "c">>), TextLine(<<"a", "b", "c">>),
                 TextLine(<<"a", "b", "c">>)>>)>>

OcrAnswer(raises, blocks, full_text, unknown) ==
    [raises |-> raises, blocks |-> blocks, full_text |-> full_text,
     unknown |-> unknown]

OcrRaises == OcrAnswer(TRUE, <<>>, <<>>, {})

OcrSpaces60 == OcrAnswer(FALSE, OcrBlocks, <<"a", SPACE, SPACE, SPACE, "b">>, {})

OcrSpaces50 == OcrAnswer(FALSE, OcrBlocks, <<"a", SPACE, "b", SPACE>>, {})

OcrEmptyText == OcrAnswer(FALSE, <<>>, <<>>, {})

OcrGood ==
    OcrAnswer(FALSE, OcrBlocks, <<"a", "b", SPACE, "a", "b", NEWLINE>>, {})

\* tokens ab, c, #: two unknown words and one non-alphanumeric token of three
OcrMisspelled ==
    OcrAnswer(FALSE, OcrBlocks, <<"a", "b", SPACE, "c", SPACE, "#">>,
              {AB, <<"c">>})

OcrAnswers ==
    {OcrRaises, OcrSpaces60, OcrSpaces50, OcrEmptyText, OcrGood, OcrMisspelled}

-----------------------------------------------------------------------------
(* get_text_blocks *)

alnum_threshold == 6

RatioBelow(r) == r[1] * 10 < r[2] * alnum_threshold

TriggerCondition(po, flag) ==
    \/ (Len(get_nonblank_lines(po)) < 3 /\ ~flag)
    \/ RatioBelow(alphanum_ratio(prelim_text(po)))

PositionConditionLastPageOnly(p, n) == 2 < p /\ p < n - 1

PositionCondition(p, n) == 2 < p /\ p < n - 2

conditions(po, flag, p, n) == TriggerCondition(po, flag) /\ PositionCondition(p, n)

LimitReached == max_pages # <<>> /\ max_pages[1] # 0 /\ pnum >= max_pages[1]

FlagAfterOcrKept(flag) == flag

FlagAfterOcr(flag) == FALSE

FlagAfterNative(flag) == TRUE

EngineIdle ==
    /\ raw_page = <<>> /\ page_blocks = <<>>
    /\ old_text = <<>> /\ ocr_frag = NoFragOcr /\ new_text = <<>>
    /\ text = <<>> /\ verdict = "pending"

DocIdle ==
    /\ doc_len = 0 /\ max_pages = <<>> /\ spell_lang = None
    /\ page_extracted = FALSE /\ page_obj = Page(<<>>, 0)
    /\ all_blocks = <<>> /\ ocr_retry = {}

Init ==
    /\ pc = "loop"
    /\ doc_len \in 0..MaxDocLen
    /\ max_pages \in {<<>>} \cup {<<m>> : m \in 0..MaxLimit}
    /\ spell_lang \in {None, "en"}
    /\ pnum = 0
    /\ page_extracted = FALSE
    /\ page_obj = Page(<<>>, 0)
    /\ all_blocks = <<>>
    /\ ocr_out = <<>>
    /\ ocr_retry = {}
    /\ EngineIdle

\* lines 162-166: next page of the document, native extraction
NativeExtract ==
    /\ pc = "loop" /\ pnum < doc_len /\ ~LimitReached
    /\ \E native \in NativePages :
          page_obj' = Page(get_single_page_blocks(
                               [native |-> native, ocr |-> OcrRaises],
                               pnum, None, FALSE).blocks, pnum)
    /\ ocr_out' = <<>>
    /\ pc' = "conditions"
    /\ UNCHANGED <<doc_len, max_pages, spell_lang, pnum, page_extracted,
                   all_blocks, ocr_retry, raw_page, page_blocks, fragVars,
                   gateVars>>

\* lines 176-177: all(conditions) holds
EnterOcrRetry ==
    /\ pc = "conditions"
    /\ conditions(page_obj, page_extracted, pnum, doc_len)
    /\ pc' = "ocr_retry"
    /\ ocr_retry' = ocr_retry \cup {pnum}
    /\ UNCHANGED <<doc_len, max_pages, spell_lang, pnum, page_extracted,
                   page_obj, all_blocks, ocr_out, raw_page, page_blocks,
                   fragVars, gateVars>>

\* lines 180-183: the native page is kept
KeepNative ==
    /\ pc = "conditions"
    /\ ~conditions(page_obj, page_extracted, pnum, doc_len)
    /\ page_extracted' = FlagAfterNative(page_extracted)
    /\ all_blocks' = Append(all_blocks, page_obj)
    /\ pnum' = pnum + 1
    /\ pc' = "loop"
    /\ UNCHANGED <<doc_len, max_pages, spell_lang, page_obj, ocr_out,
                   ocr_retry, raw_page, page_blocks, fragVars, gateVars>>

\* lines 177-179, 183: full-page OCR and rebuild of the hierarchy
OcrRetry ==
    /\ pc = "ocr_retry"
    /\ \E engine \in OcrAnswers :
          LET got == get_single_page_blocks(
                         [native |-> <<>>, ocr |-> engine], pnum, spell_lang, TRUE)
          IN /\ ocr_out' = <<engine>>
             /\ IF got.exc # NoException
                THEN /\ pc' = "raised"
                     /\ UNCHANGED <<page_obj, page_extracted, all_blocks, pnum>>
                ELSE /\ page_obj' = Page(got.blocks, pnum)
                     /\ page_extracted' = FlagAfterOcr(page_extracted)
                     /\ all_blocks' = Append(all_blocks, Page(got.blocks, pnum))
                     /\ pnum' = pnum + 1
                     /\ pc' = "loop"
    /\ UNCHANGED <<doc_len, max_pages, spell_lang, ocr_retry, raw_page,
                   page_blocks, fragVars, gateVars>>

\* lines 162-164, 184: the document is exhausted or the limit is reached
Return ==
    /\ pc = "loop" /\ (pnum >= doc_len \/ LimitReached)
    /\ pc' = "done"
    /\ UNCHANGED <<docVars, pnum, ocr_out, raw_page, page_blocks, fragVars,
                   gateVars>>

Next == NativeExtract \/ EnterOcrRetry \/ KeepNative \/ OcrRetry \/ Return

Spec == Init /\ [][Next]_vars

-----------------------------------------------------------------------------
(* get_single_page_blocks on bounded block records *)

\* a span with an invalid character, repaired by fragment OCR
BadSpan == RawSpan(<<BADCHAR, "b">>, [raises |-> FALSE, text |-> <<"c", "b">>])

RawLines ==
    { RawLine(<<RawSpan(AB, NoFragOcr)>>, <<0, 0, 2, 1>>),
      RawLine(<<RawSpan(<<"a">>, NoFragOcr), BadSpan>>, <<0, 1, 3, 2>>),
      RawLine(<<RawSpan(AB, NoFragOcr)>>, <<0, 0, 0, 1>>),
      RawLine(<<RawSpan(<<"a">>, NoFragOcr), RawSpan(<<"b">>, NoFragOcr)>>,
              <<2, 0, 0, 1>>),
      RawLine(<<RawSpan(<<"c">>, NoFragOcr)>>, <<2, 2, 0, 0>>) }

NonDecreasing(f) == \A i, j \in DOMAIN f : i < j => f[i] <= f[j]

\* the lines ls[i] with inBlock[i] = b, which are consecutive
LinesOfBlock(ls, inBlock, b) ==
    LET idx == {i \in 1..Len(ls) : inBlock[i] = b}
    IN IF idx = {} THEN <<>>
       ELSE SubSeq(ls, CHOOSE i \in idx : \A j \in idx : i <= j,
                       CHOOSE i \in idx : \A j \in idx : j <= i)

\* at most MaxLines line records on the page, laid out in at most MaxBlocks
\* block records, some of which may have no line
RawPages ==
    { [b \in 1..nb |-> RawBlock(LinesOfBlock(ls, inBlock, b))] :
        <<nb, ls, inBlock>> \in
            { x \in (0..MaxBlocks) \X SeqsUpTo(RawLines, MaxLines)
                      \X SeqsUpTo(1..MaxBlocks, MaxLines) :
                /\ Len(x[3]) = Len(x[2])
                /\ \A i \in 1..Len(x[3]) : x[3][i] <= x[1]
                /\ NonDecreasing(x[3]) } }

\* full-page OCR answers whose block records are bs
BlockOcrAnswers(bs) ==
    { OcrAnswer(TRUE, <<>>, <<>>, {}),
      OcrAnswer(FALSE, bs, OcrSpaces60.full_text, {}),
      OcrAnswer(FALSE, bs, OcrGood.full_text, {}),
      OcrAnswer(FALSE, bs, <<>>, {}) }

InitBlocks ==
    /\ pc = "call"
    /\ raw_page \in RawPages
    /\ pnum = 12
    /\ page_blocks = <<>>
    /\ ocr_out = <<>>
    /\ DocIdle
    /\ old_text = <<>> /\ ocr_frag = NoFragOcr /\ new_text = <<>>
    /\ text = <<>> /\ verdict = "pending"

\* line 100, 102-142: ocr=False
BlocksNative ==
    /\ pc = "call"
    /\ page_blocks' = get_single_page_blocks(
                          [native |-> raw_page, ocr |-> OcrRaises],
                          pnum, None, FALSE).blocks
    /\ pc' = "returned"
    /\ UNCHANGED <<docVars, pnum, ocr_out, raw_page, fragVars, gateVars>>

\* line 98, 102-142: ocr=True
BlocksOcr ==
    /\ pc = "call"
    /\ \E engine \in BlockOcrAnswers(raw_page) :
          LET got == get_single_page_blocks(
                         [native |-> <<>>, ocr |-> engine], pnum, None, TRUE)
          IN /\ ocr_out' = <<engine>>
             /\ page_blocks' = got.blocks
             /\ pc' = IF got.exc # NoException THEN "raised" ELSE "returned"
    /\ UNCHANGED <<docVars, pnum, raw_page, fragVars, gateVars>>

NextBlocks == BlocksNative \/ BlocksOcr

SpecBlocks == InitBlocks /\ [][NextBlocks]_vars

-----------------------------------------------------------------------------
(* ocr_bbox on bounded texts *)

FragChars == {"a", SPACE, TAB}

FragTexts == SeqsUpTo(FragChars, MaxFragLen)

FragAnswers ==
    {[raises |-> TRUE, text |-> <<>>]}
        \cup {[raises |-> FALSE, text |-> t] : t \in FragTexts}

InitFrag ==
    /\ pc = "call"
    /\ old_text \in FragTexts
    /\ ocr_frag = NoFragOcr
    /\ new_text = <<>>
    /\ pnum = 0 /\ ocr_out = <<>> /\ DocIdle
    /\ raw_page = <<>> /\ page_blocks = <<>>
    /\ text = <<>> /\ verdict = "pending"

OcrBbox ==
    /\ pc = "call"
    /\ \E engine \in FragAnswers :
          /\ ocr_frag' = engine
          /\ new_text' = ocr_bbox(old_text, engine)
    /\ pc' = "returned"
    /\ UNCHANGED <<docVars, pnum, ocr_out, raw_page, page_blocks, old_text,
                   gateVars>>

NextFrag == OcrBbox

SpecFrag == InitFrag /\ [][NextFrag]_vars

-----------------------------------------------------------------------------
(* detect_bad_ocr with spell checking disabled, on a text that grows by one  *)
(* space at a time                                                          *)

GateChars == {"a", SPACE, NEWLINE}

InitGate ==
    /\ pc = "call"
    /\ text \in SeqsUpTo(GateChars, MaxTextLen)
    /\ verdict = "pending"
    /\ pnum = 0 /\ ocr_out = <<>> /\ DocIdle
    /\ raw_page = <<>> /\ page_blocks = <<>>
    /\ old_text = <<>> /\ ocr_frag = NoFragOcr /\ new_text = <<>>

DetectBadOcr ==
    /\ pc = "call"
    /\ verdict' = GateOutcome(text, None, {})
    /\ pc' = "returned"
    /\ UNCHANGED <<docVars, pnum, ocr_out, raw_page, page_blocks, fragVars, text>>

InsertSpace(t, i) == SubSeq(t, 1, i) \o <<SPACE>> \o SubSeq(t, i + 1, Len(t))

\* the same text with one more space, gated again
AddSpace ==
    /\ pc = "returned"
    /\ Len(text) < MaxGateLen
    /\ \E i \in 0..Len(text) : text' = InsertSpace(text, i)
    /\ verdict' = GateOutcome(text', None, {})
    /\ UNCHANGED <<docVars, pc, pnum, ocr_out, raw_page, page_blocks, fragVars>>

NextGate == DetectBadOcr \/ AddSpace

SpecGate == InitGate /\ [][NextGate]_vars

-----------------------------------------------------------------------------
(* Properties of ocr_bbox, under SpecFrag *)

OnlySpacesAround(t) ==
    /\ \A i \in 1..lblanks(t) : t[i] = SPACE
    /\ \A i \in (Len(t) - rblanks(t) + 1)..Len(t) : t[i] = SPACE

\* C4: when the OCR engine raises a runtime failure or returns text that is
\* blank after trimming, ocr_bbox returns normally and its result is exactly
\* the original text, whitespace included.
C4_FallbackReturnsOriginal ==
    (pc # "call" /\ (ocr_frag.raises \/ strip(ocr_frag.text) = <<>>))
        => (pc = "returned" /\ new_text = old_text)

C4_Witness ==
    /\ pc = "returned"
    /\ ~ocr_frag.raises /\ ocr_frag.text = <<SPACE>>
    /\ old_text = <<TAB, "a", SPACE>>
    /\ new_text = <<TAB, "a", SPACE>>

\* C5 as stated: for every original text with a non-blank trimmed form,
\* whatever whitespace surrounds it, an engine that returns exactly the
\* trimmed form makes ocr_bbox return the original text.
C5_RoundTripAnyWhitespace ==
    (/\ pc = "returned"
     /\ strip(old_text) # <<>>
     /\ ~ocr_frag.raises /\ ocr_frag.text = strip(old_text))
        => new_text = old_text

\* C5 amended: the round trip holds when the leading and trailing whitespace
\* of the original text consists of space characters only.
C5_RoundTripSpaces ==
    (/\ pc = "returned"
     /\ strip(old_text) # <<>>
     /\ OnlySpacesAround(old_text)
     /\ ~ocr_frag.raises /\ ocr_frag.text = strip(old_text))
        => new_text = old_text

C5_Witness ==
    /\ pc = "returned"
    /\ old_text = <<SPACE, "a", SPACE>>
    /\ ~ocr_frag.raises /\ ocr_frag.text = <<"a">>
    /\ new_text = <<SPACE, "a", SPACE>>

-----------------------------------------------------------------------------
(* Properties of detect_bad_ocr, under SpecGate *)

SpaceShareExceeded(t) == 2 * count(t, SPACE) > Len(t)

\* C8 as stated: with spell checking disabled, adding a space never turns a
\* garbled verdict into usable, and a usable text becomes garbled exactly
\* when its spaces are strictly more than half of its characters.
C8_MonotonicInSpaces ==
    [][/\ (verdict = "garbled" => verdict' = "garbled")
       /\ (verdict = "usable"
              => (verdict' = "garbled" <=> SpaceShareExceeded(text')))]_vars

\* C8 amended: with spell checking disabled, adding a space never turns a
\* text that is garbled by its space share into usable, and a usable text
\* becomes garbled exactly when its spaces are strictly more than half of its
\* characters (exactly half is still usable).
C8_MonotonicOnceSpacesExceed ==
    [][/\ (verdict = "garbled" /\ SpaceShareExceeded(text)
              => verdict' = "garbled")
       /\ (verdict = "usable"
              => (verdict' = "garbled" <=> SpaceShareExceeded(text')))]_vars

C8_Witness ==
    /\ pc = "returned"
    /\ Len(text) = 4 /\ count(text, SPACE) = 2 /\ count(text, NEWLINE) = 0
    /\ verdict = "usable"

-----------------------------------------------------------------------------
(* Properties of get_single_page_blocks, under SpecBlocks *)

Increasing(f) == \A i, j \in DOMAIN f : i < j => f[i] < f[j]

LineKey(l) == <<l.bbox, Len(l.spans)>>

LinesKeepOrder(kept, given) ==
    \E g \in [1..Len(kept) -> 1..Len(given)] :
        /\ Increasing(g)
        /\ \A i \in 1..Len(kept) : LineKey(kept[i]) = LineKey(given[g[i]])

BlocksKeepOrder(kept, given) ==
    \E f \in [1..Len(kept) -> 1..Len(given)] :
        /\ Increasing(f)
        /\ \A i \in 1..Len(kept) :
              /\ kept[i].bbox = given[f[i]].bbox
              /\ LinesKeepOrder(kept[i].lines, given[f[i]].lines)

\* C6: every returned Block has at least one Line, every Line of a returned
\* Block has area strictly greater than 0, and the returned blocks and lines
\* are in the relative order of the input records, for native and OCR input.
C6_RetentionInvariant ==
    pc = "returned" =>
        /\ \A i \in 1..Len(page_blocks) :
              /\ Len(page_blocks[i].lines) > 0
              /\ \A j \in 1..Len(page_blocks[i].lines) :
                    LET b == page_blocks[i].lines[j].bbox
                    IN (b[3] - b[1]) * (b[4] - b[2]) > 0
        /\ BlocksKeepOrder(page_blocks, raw_page)

C6_Witness ==
    /\ pc = "returned"
    /\ ocr_out # <<>>
    /\ Len(raw_page) = 2 /\ Len(page_blocks) = 1
    /\ Len(raw_page[2].lines) = 2 /\ Len(page_blocks[1].lines) = 1
    /\ page_blocks[1].lines[1].bbox = raw_page[2].lines[2].bbox

ReturnedSpans ==
    Concat([i \in 1..Len(PageLines(Page(page_blocks, pnum))) |->
               PageLines(Page(page_blocks, pnum))[i].spans])

MaxSpanIndex == 2 * MaxLines

HasIdForm(id) == \E k \in 0..MaxSpanIndex : id = str(pnum) \o <<"_">> \o str(k)

IndexOfId(id) == CHOOSE k \in 0..MaxSpanIndex : id = str(pnum) \o <<"_">> \o str(k)

\* C7: in the returned hierarchy every span identifier is <page number>_<index>,
\* no two spans share an identifier and the index strictly increases along
\* block, line and span order, also across dropped lines and blocks.
C7_SpanIdsIncrease ==
    pc = "returned" =>
        /\ \A i \in 1..Len(ReturnedSpans) : HasIdForm(ReturnedSpans[i].span_id)
        /\ \A i, j \in 1..Len(ReturnedSpans) :
              i < j => /\ ReturnedSpans[i].span_id # ReturnedSpans[j].span_id
                       /\ IndexOfId(ReturnedSpans[i].span_id)
                              < IndexOfId(ReturnedSpans[j].span_id)

C7_Witness ==
    /\ pc = "returned"
    /\ ocr_out # <<>>
    /\ Len(ReturnedSpans) = 2
    /\ ReturnedSpans[1].span_id = <<"1", "2", "_", "0">>
    /\ ReturnedSpans[2].span_id = <<"1", "2", "_", "3">>

-----------------------------------------------------------------------------
(* Properties of get_text_blocks, under Spec *)

Min(a, b) == IF a < b THEN a ELSE b

LowAlnumText(t) ==
    Len(t) > 0 /\ 10 * Cardinality({i \in 1..Len(t) : isalnum(t[i])}) < 6 * Len(t)

\* the native extraction of a page gave enough clean text to be used as is
NativeSuccess(po) ==
    Len(get_nonblank_lines(po)) >= 3 /\ ~LowAlnumText(prelim_text(po))

NoPriorNativeSuccess ==
    \A i \in 1..Len(all_blocks) :
        (i - 1) \in ocr_retry \/ ~NativeSuccess(all_blocks[i])

\* C1: a page strictly inside the document whose native extraction has fewer
\* than 3 non-blank lines, with no successful native extraction on any
\* earlier page, enters ocr-retry; and a page whose full-page OCR text is
\* rejected by detect_bad_ocr is appended with an empty block list.
C1_SparsePageIsOcred ==
    [][/\ (/\ pc = "conditions"
           /\ 2 < pnum /\ pnum < doc_len - 2
           /\ Len(get_nonblank_lines(page_obj)) < 3
           /\ NoPriorNativeSuccess)
              => pc' = "ocr_retry"
       /\ (/\ pc = "ocr_retry" /\ pc' = "loop"
           /\ detect_bad_ocr(ocr_out'[1].full_text, spell_lang, ocr_out'[1].unknown))
              => all_blocks'[Len(all_blocks')] = Page(<<>>, pnum)]_vars

\* C2: a page with index <= 2 or >= N-2 never enters ocr-retry; a page with
\* 3 <= index <= N-3 whose preliminary text has an alphanumeric ratio below
\* 0.6 always enters ocr-retry.
C2_PositionGating ==
    [][pc = "conditions" =>
          /\ (pnum <= 2 \/ pnum >= doc_len - 2) => pc' # "ocr_retry"
          /\ (/\ 3 <= pnum /\ pnum <= doc_len - 3
              /\ LowAlnumText(prelim_text(page_obj))) => pc' = "ocr_retry"]_vars

C2_Witness ==
    /\ pc = "ocr_retry"
    /\ pnum = doc_len - 3
    /\ page_extracted
    /\ Len(get_nonblank_lines(page_obj)) >= 3
    /\ LowAlnumText(prelim_text(page_obj))

\* C3: whatever full-page OCR answers for a page in ocr-retry, no exception
\* escapes: a Page for that index is appended and the loop goes on.
C3_NoExceptionEscapes ==
    [][pc = "ocr_retry" =>
          /\ pc' = "loop"
          /\ Len(all_blocks') = Len(all_blocks) + 1
          /\ all_blocks'[Len(all_blocks')].pnum = pnum
          /\ pnum' = pnum + 1]_vars

ExpectedPages ==
    IF max_pages = <<>> THEN doc_len ELSE Min(max_pages[1], doc_len)

\* C9: get_text_blocks ends by returning min(max_pages, N) Pages when a
\* maximum page count is given and N Pages otherwise, the Page at position i
\* carrying page number i.
C9_ReturnsExpectedPages ==
    (pc \in {"done", "raised"}) =>
        /\ pc = "done"
        /\ Len(all_blocks) = ExpectedPages
        /\ \A i \in 1..Len(all_blocks) : all_blocks[i].pnum = i - 1

====
